---- MODULE Spec2Model ----
(***************************************************************************)
(* Model of the nexus-forum backend.                                       *)
(*   src/server.js         the relational (PostgreSQL) server              *)
(*   src/server-sqlite.js  the in-memory demo server                       *)
(* Tables are functions from the SERIAL id to the row; the likes table is  *)
(* a set of rows carrying their own id, so that the UNIQUE(user_id,        *)
(* post_id) constraint is something the insert has to enforce.             *)
(***************************************************************************)
EXTENDS Integers, Sequences, FiniteSets, TLC

VARIABLES
  now,            \* CURRENT_TIMESTAMP / new Date(), a monotonic clock
  users,          \* users table: id -> row
  usersSeq,       \* users_id_seq
  categories,     \* categories table: id -> row
  categoriesSeq,  \* categories_id_seq
  initPc,         \* position of initDB
  initRuns,       \* completed runs of initDB (server starts)
  authResp,       \* last response of /api/register or /api/login
  topics,         \* topics table: id -> row
  topicsSeq,      \* topics_id_seq
  posts,          \* posts table: id -> row
  postsSeq,       \* posts_id_seq
  forumResp,      \* last response of the topic and post endpoints
  okFetches,      \* client side: 200 answers of GET /api/topics/:id per topic
  likes,          \* likes table: set of rows
  likesSeq,       \* likes_id_seq
  req,            \* in-flight POST /api/posts/:id/like requests
  started,        \* number of like requests received
  cur0,           \* client side: store as it was when the running toggle began
  hist,           \* client side: the last two toggles that ran one after the other
  memTopics,      \* server-sqlite.js: topics
  memCategories,  \* server-sqlite.js: categories
  topicIdCounter, \* server-sqlite.js: topicIdCounter
  memResp         \* server-sqlite.js: last response

authVars == <<users, usersSeq, categories, categoriesSeq, initPc, initRuns, authResp>>
forumVars == <<topics, topicsSeq, forumResp, okFetches>>
postVars == <<posts, postsSeq>>
likeVars == <<likes, likesSeq, req, started>>
seqVars == <<cur0, hist>>
memVars == <<memTopics, memCategories, topicIdCounter, memResp>>
vars == <<now, authVars, forumVars, postVars, likeVars, seqVars, memVars>>

(***************************************************************************)
(* Bounds of the model.                                                    *)
(***************************************************************************)
\* concurrent like requests
NumReqs == 2
\* like requests received in one behaviour
MaxToggles == 3
\* ticks of the clock
MaxClock == 1
\* rows ever inserted into users (value of users_id_seq)
MaxUserSeq == 2
\* runs of initDB after the first one
MaxInits == 1
\* topics created
MaxTopics == 2
\* posts created
MaxPosts == 1
\* views of one topic
MaxViews == 2
\* topics created in the in-memory server
MaxMemTopics == 3

\* SQL NULL / a field the JSON body does not carry, for integer columns
NullId == -1
\* the same for text columns
NULL == "NULL"

Reqs == 1..NumReqs

EmptyTable == [i \in {} |-> NullId]

(***************************************************************************)
(* Auth gateway and database initialization (src/server.js).               *)
(***************************************************************************)
\* text values a request may carry as username, email or login identifier
Strings == {"admin", "admin@nexus.com", "bob"}
\* passwords a login may try, and those new users choose
Passwords == {"admin123", "pw"}
NewPasswords == {"pw"}
\* salts bcrypt may draw
Salts == {"s1", "s2"}

\* bcrypt.hash(password, 10): a salted hash that carries its salt
BcryptHash(password, salt) == <<"$2a$10$", salt, password>>

\* bcrypt.compare(password, hash): hash the candidate with the stored salt
BcryptCompare(password, hash) == BcryptHash(password, hash[2]) = hash

UserRow(username, email, hash, ts) ==
  [username |-> username, email |-> email, password_hash |-> hash, last_seen |-> ts]

\* users.username and users.email are NOT NULL
UsersNotNullOk(username, email) == username # NULL /\ email # NULL

UsernameTaken(U, username) == \E i \in DOMAIN U : U[i].username = username

EmailTaken(U, email) == \E i \in DOMAIN U : U[i].email = email

\* the mutant of UsersUniqueOk: users.email without its UNIQUE constraint
UsersUniqueUsernameOnly(U, username, email) == ~UsernameTaken(U, username)

\* UNIQUE on users.username and on users.email
UsersUniqueOk(U, username, email) ==
  ~UsernameTaken(U, username) /\ ~EmailTaken(U, email)

SeedCategories == <<"General Discussion", "Announcements", "Help & Support", "Feature Requests">>

\* ON CONFLICT DO NOTHING on categories: the only unique index is the primary key
CategoriesConflict(C, id, name) == id \in DOMAIN C

\* INSERT INTO categories ... VALUES (four rows) ON CONFLICT DO NOTHING
RECURSIVE InsertCategories(_, _, _)
InsertCategories(C, seq, names) ==
  IF names = <<>> THEN C
  ELSE LET id == seq + 1
           C1 == IF CategoriesConflict(C, id, Head(names)) THEN C
                 ELSE (id :> [name |-> Head(names)]) @@ C
       IN InsertCategories(C1, id, Tail(names))

\* INSERT INTO users ('admin', ...) ON CONFLICT (username) DO NOTHING; an email
\* conflict is not covered by the clause and raises (caught and logged by initDB)
InsertAdmin(U, seq, hash, ts) ==
  IF UsernameTaken(U, "admin") \/ EmailTaken(U, "admin@nexus.com") THEN U
  ELSE ((seq + 1) :> UserRow("admin", "admin@nexus.com", hash, ts)) @@ U

\* initDB, register and login touch users and categories only
AuthFrame == UNCHANGED <<now, forumVars, postVars, likeVars, seqVars, memVars>>

\* initDB, first part: SELECT 1 and the CREATE TABLE IF NOT EXISTS statements
\* (no effect on tables that exist); also the start of a later run of the server
InitTables ==
  /\ initPc = "done"
  /\ initRuns < 1 + MaxInits
  /\ initPc' = "seedCategories"
  /\ UNCHANGED <<users, usersSeq, categories, categoriesSeq, initRuns, authResp>>
  /\ AuthFrame

InitCategories ==
  /\ initPc = "seedCategories"
  /\ categories' = InsertCategories(categories, categoriesSeq, SeedCategories)
  /\ categoriesSeq' = categoriesSeq + Len(SeedCategories)
  /\ initPc' = "seedAdmin"
  /\ UNCHANGED <<users, usersSeq, initRuns, authResp>>
  /\ AuthFrame

InitAdmin ==
  /\ initPc = "seedAdmin"
  /\ \E salt \in Salts :
       users' = InsertAdmin(users, usersSeq, BcryptHash("admin123", salt), now)
  /\ usersSeq' = usersSeq + 1
  /\ initPc' = "done"
  /\ initRuns' = initRuns + 1
  /\ UNCHANGED <<categories, categoriesSeq, authResp>>
  /\ AuthFrame

AuthResponse(op, status, id, username, email, password) ==
  [op |-> op, status |-> status, id |-> id, username |-> username,
   email |-> email, password |-> password, before |-> users]

\* POST /api/register
Register(username, email, password) ==
  /\ usersSeq < MaxUserSeq
  /\ IF password = NULL
     THEN \* bcrypt.hash rejects a missing password before any query
          /\ authResp' = AuthResponse("register", 400, NullId, username, email, password)
          /\ UNCHANGED <<users, usersSeq>>
     ELSE /\ usersSeq' = usersSeq + 1
          /\ IF UsersNotNullOk(username, email) /\ UsersUniqueOk(users, username, email)
             THEN \E salt \in Salts :
                    /\ users' = ((usersSeq + 1) :>
                                  UserRow(username, email, BcryptHash(password, salt), now))
                                @@ users
                    /\ authResp' = AuthResponse("register", 200, usersSeq + 1,
                                                username, email, password)
             ELSE /\ users' = users
                  /\ authResp' = AuthResponse("register", 400, NullId,
                                              username, email, password)
  /\ UNCHANGED <<categories, categoriesSeq, initPc, initRuns>>
  /\ AuthFrame

\* SELECT * FROM users WHERE username = $1 OR email = $1
LoginRows(U, identifier) ==
  {i \in DOMAIN U : U[i].username = identifier \/ U[i].email = identifier}

\* UPDATE users SET last_seen = CURRENT_TIMESTAMP WHERE id = $1
TouchLastSeen(U, id, ts) ==
  [i \in DOMAIN U |-> IF i = id THEN [U[i] EXCEPT !.last_seen = ts] ELSE U[i]]

\* POST /api/login; rows[0] of a query without ORDER BY is any matching row
Login(identifier, password) ==
  /\ LET rows == LoginRows(users, identifier)
     IN IF rows = {}
        THEN /\ authResp' = AuthResponse("login", 401, NullId, identifier, NULL, password)
             /\ users' = users
        ELSE \E id \in rows :
               IF password = NULL
               THEN \* bcrypt.compare rejects a missing password
                    /\ authResp' = AuthResponse("login", 500, id, identifier, NULL, password)
                    /\ users' = users
               ELSE IF ~BcryptCompare(password, users[id].password_hash)
               THEN /\ authResp' = AuthResponse("login", 401, id, identifier, NULL, password)
                    /\ users' = users
               ELSE /\ users' = TouchLastSeen(users, id, now)
                    /\ authResp' = AuthResponse("login", 200, id, identifier, NULL, password)
  /\ UNCHANGED <<usersSeq, categories, categoriesSeq, initPc, initRuns>>
  /\ AuthFrame

\* time passes
Tick ==
  /\ now < MaxClock
  /\ now' = now + 1
  /\ UNCHANGED <<authVars, forumVars, postVars, likeVars, seqVars, memVars>>

NoAuthResponse ==
  [op |-> "none", status |-> 0, id |-> NullId, username |-> NULL, email |-> NULL,
   password |-> NULL, before |-> EmptyTable]

\* the store once initDB has run on an empty database: all but the users table
SeededInit ==
  /\ now = 0
  /\ categories = InsertCategories(EmptyTable, 0, SeedCategories)
  /\ categoriesSeq = Len(SeedCategories)
  /\ initPc = "done"
  /\ initRuns = 1
  /\ authResp = NoAuthResponse

\* ... and the users table, holding the admin
AuthInit ==
  /\ SeededInit
  /\ \E salt \in Salts :
       users = InsertAdmin(EmptyTable, 0, BcryptHash("admin123", salt), 0)
  /\ usersSeq = 1

(***************************************************************************)
(* Topics and posts (src/server.js).                                       *)
(***************************************************************************)
\* user_id || 1
UserIdOrDefault(user_id) == IF user_id = NullId \/ user_id = 0 THEN 1 ELSE user_id

\* a REFERENCES column: NULL, or the id of a row of the referenced table
ForeignKeyOk(T, id) == id = NullId \/ id \in DOMAIN T

\* topics: title and content NOT NULL, user_id and category_id REFERENCES
TopicsInsertOk(U, C, title, content, category_id, user_id) ==
  /\ title # NULL
  /\ content # NULL
  /\ ForeignKeyOk(C, category_id)
  /\ ForeignKeyOk(U, user_id)

\* posts: content NOT NULL; topic_id, user_id and parent_id REFERENCES (nullable)
PostsInsertOk(U, T, P, content, topic_id, user_id, parent_id) ==
  /\ content # NULL
  /\ ForeignKeyOk(T, topic_id)
  /\ ForeignKeyOk(U, user_id)
  /\ ForeignKeyOk(P, parent_id)

\* the topic and post endpoints touch topics and posts only
ForumFrame == UNCHANGED <<now, authVars, likeVars, seqVars, memVars>>

ForumResponse(op, status, id, views) ==
  [op |-> op, status |-> status, id |-> id, views |-> views]

\* POST /api/topics
CreateTopic(title, content, category_id, user_id) ==
  /\ topicsSeq < MaxTopics
  /\ topicsSeq' = topicsSeq + 1
  /\ LET id == topicsSeq + 1
         uid == UserIdOrDefault(user_id)
     IN IF TopicsInsertOk(users, categories, title, content, category_id, uid)
        THEN /\ topics' = (id :> [user_id |-> uid, category_id |-> category_id,
                                  views |-> 0, updated_at |-> now]) @@ topics
             /\ okFetches' = (id :> 0) @@ okFetches
             /\ forumResp' = ForumResponse("createTopic", 200, id, 0)
        ELSE /\ UNCHANGED <<topics, okFetches>>
             /\ forumResp' = ForumResponse("createTopic", 400, NullId, 0)
  /\ UNCHANGED postVars
  /\ ForumFrame

\* the mutant of IncrementViews: the UPDATE without its WHERE clause
IncrementViewsAll(T, id) == [i \in DOMAIN T |-> [T[i] EXCEPT !.views = @ + 1]]

\* UPDATE topics SET views = views + 1 WHERE id = $1
IncrementViews(T, id) ==
  [i \in DOMAIN T |-> IF i = id THEN [T[i] EXCEPT !.views = @ + 1] ELSE T[i]]

\* SELECT ... FROM topics t JOIN users u ON t.user_id = u.id ... WHERE t.id = $1
TopicRows(T, U, id) == {i \in DOMAIN T : i = id /\ T[i].user_id \in DOMAIN U}

\* GET /api/topics/:id
GetTopic(id) ==
  /\ id \in DOMAIN topics => topics[id].views < MaxViews
  /\ topics' = IncrementViews(topics, id)
  /\ LET rows == TopicRows(topics', users, id)
     IN IF rows = {}
        THEN /\ forumResp' = ForumResponse("getTopic", 404, id, 0)
             /\ okFetches' = okFetches
        ELSE /\ forumResp' = ForumResponse("getTopic", 200, id, topics'[id].views)
             /\ okFetches' = [okFetches EXCEPT ![id] = @ + 1]
  /\ UNCHANGED <<topicsSeq, postVars>>
  /\ ForumFrame

\* UPDATE topics SET updated_at = CURRENT_TIMESTAMP WHERE id = $1
BumpTopic(T, id, ts) ==
  [i \in DOMAIN T |-> IF i = id THEN [T[i] EXCEPT !.updated_at = ts] ELSE T[i]]

\* POST /api/posts
CreatePost(content, topic_id, user_id, parent_id) ==
  /\ postsSeq < MaxPosts
  /\ postsSeq' = postsSeq + 1
  /\ LET id == postsSeq + 1
         uid == UserIdOrDefault(user_id)
     IN IF PostsInsertOk(users, topics, posts, content, topic_id, uid, parent_id)
        THEN /\ posts' = (id :> [topic_id |-> topic_id, user_id |-> uid,
                                 parent_id |-> parent_id, likes |-> 0]) @@ posts
             /\ topics' = BumpTopic(topics, topic_id, now)
             /\ forumResp' = ForumResponse("createPost", 200, id, 0)
        ELSE /\ UNCHANGED <<posts, topics>>
             /\ forumResp' = ForumResponse("createPost", 400, NullId, 0)
  /\ UNCHANGED <<topicsSeq, okFetches>>
  /\ ForumFrame

ForumInit ==
  /\ topics = EmptyTable
  /\ topicsSeq = 0
  /\ forumResp = ForumResponse("none", 0, NullId, 0)
  /\ okFetches = EmptyTable

PostsInit ==
  /\ posts = EmptyTable
  /\ postsSeq = 0

(***************************************************************************)
(* Like / unlike (src/server.js, POST /api/posts/:id/like).  The handler   *)
(* awaits three statements, and other requests run between them: a request *)
(* is a slot of req that moves                                             *)
(*   idle/done -select-> insert -> increment -> done                       *)
(*   idle/done -select-> delete -> decrement -> done                      *)
(***************************************************************************)
\* user_id values a body may carry (NullId: none; 9: no such user)
UserIdParams == {NullId, 2, 9}
\* :id values (9: no such post)
PostIdParams == {1, 2, 9}

\* SELECT * FROM likes WHERE user_id = $1 AND post_id = $2
LikeRows(L, user_id, post_id) ==
  {l \in L : l.user_id = user_id /\ l.post_id = post_id}

\* the mutant of LikesUniqueOk: a likes table without its UNIQUE constraint
LikesUniqueDropped(L, user_id, post_id) == TRUE

\* UNIQUE(user_id, post_id)
LikesUniqueOk(L, user_id, post_id) == LikeRows(L, user_id, post_id) = {}

\* likes: user_id and post_id REFERENCES, UNIQUE(user_id, post_id)
LikesInsertOk(U, P, L, user_id, post_id) ==
  /\ ForeignKeyOk(U, user_id)
  /\ ForeignKeyOk(P, post_id)
  /\ LikesUniqueOk(L, user_id, post_id)

\* UPDATE posts SET likes = likes + d WHERE id = $1
AddLikes(P, id, d) ==
  [i \in DOMAIN P |-> IF i = id THEN [P[i] EXCEPT !.likes = @ + d] ELSE P[i]]

\* a like request touches the likes table, posts.likes and nothing else
LikeFrame == UNCHANGED <<now, authVars, forumVars, postsSeq, memVars>>

IdleReq == [pc |-> "idle", user |-> NullId, post |-> NullId, resp |-> "none"]

InFlight(r) == req[r].pc \notin {"idle", "done"}

Quiescent == \A r \in Reqs : ~InFlight(r)

\* the request arrives and runs its existence check
LikeSelect(r, user_id, post_id) ==
  /\ ~InFlight(r)
  /\ started < MaxToggles
  /\ started' = started + 1
  /\ LET uid == UserIdOrDefault(user_id)
         existing == LikeRows(likes, uid, post_id)
     IN req' = [req EXCEPT ![r] = [pc |-> IF existing # {} THEN "delete" ELSE "insert",
                                   user |-> uid, post |-> post_id, resp |-> "pending"]]
  /\ UNCHANGED <<likes, likesSeq, posts>>
  /\ LikeFrame

\* the mutant of LikeInsert: a rejected insert taken for a success
\* (INSERT ... ON CONFLICT DO NOTHING, or an error swallowed)
LikeInsertSilent(r) ==
  /\ req[r].pc = "insert"
  /\ likesSeq' = likesSeq + 1
  /\ likes' = IF LikesInsertOk(users, posts, likes, req[r].user, req[r].post)
              THEN likes \cup {[id |-> likesSeq + 1, user_id |-> req[r].user,
                                post_id |-> req[r].post]}
              ELSE likes
  /\ req' = [req EXCEPT ![r].pc = "increment"]
  /\ UNCHANGED <<started, posts>>
  /\ LikeFrame

\* INSERT INTO likes; the sequence advances whether or not the row is accepted,
\* and a rejected insert is answered 500 by the catch
LikeInsert(r) ==
  /\ req[r].pc = "insert"
  /\ likesSeq' = likesSeq + 1
  /\ IF LikesInsertOk(users, posts, likes, req[r].user, req[r].post)
     THEN /\ likes' = likes \cup {[id |-> likesSeq + 1, user_id |-> req[r].user,
                                   post_id |-> req[r].post]}
          /\ req' = [req EXCEPT ![r].pc = "increment"]
     ELSE /\ likes' = likes
          /\ req' = [req EXCEPT ![r].pc = "done", ![r].resp = "error500"]
  /\ UNCHANGED <<started, posts>>
  /\ LikeFrame

\* UPDATE posts SET likes = likes + 1, then {liked: true}
LikeIncrement(r) ==
  /\ req[r].pc = "increment"
  /\ posts' = AddLikes(posts, req[r].post, 1)
  /\ req' = [req EXCEPT ![r].pc = "done", ![r].resp = "liked_true"]
  /\ UNCHANGED <<likes, likesSeq, started>>
  /\ LikeFrame

\* DELETE FROM likes WHERE user_id = $1 AND post_id = $2 (of no row, too)
LikeDelete(r) ==
  /\ req[r].pc = "delete"
  /\ likes' = likes \ LikeRows(likes, req[r].user, req[r].post)
  /\ req' = [req EXCEPT ![r].pc = "decrement"]
  /\ UNCHANGED <<likesSeq, started, posts>>
  /\ LikeFrame

\* the mutant of LikeDecrement: the unlike branch without its counter update
LikeDecrementSkipped(r) ==
  /\ req[r].pc = "decrement"
  /\ req' = [req EXCEPT ![r].pc = "done", ![r].resp = "liked_false"]
  /\ UNCHANGED <<likes, likesSeq, started, posts>>
  /\ LikeFrame

\* UPDATE posts SET likes = likes - 1, then {liked: false}
LikeDecrement(r) ==
  /\ req[r].pc = "decrement"
  /\ posts' = AddLikes(posts, req[r].post, -1)
  /\ req' = [req EXCEPT ![r].pc = "done", ![r].resp = "liked_false"]
  /\ UNCHANGED <<likes, likesSeq, started>>
  /\ LikeFrame

TwoPosts ==
  (1 :> [topic_id |-> 1, user_id |-> 1, parent_id |-> NullId, likes |-> 0])
  @@ (2 :> [topic_id |-> 1, user_id |-> 2, parent_id |-> 1, likes |-> 0])

\* a forum with two users, one topic and two posts
LikeBase ==
  /\ SeededInit
  /\ users = (2 :> UserRow("bob", "bob@nexus.com", BcryptHash("pw", "s2"), 0))
             @@ InsertAdmin(EmptyTable, 0, BcryptHash("admin123", "s1"), 0)
  /\ usersSeq = 2
  /\ topics = (1 :> [user_id |-> 1, category_id |-> 1, views |-> 0, updated_at |-> 0])
  /\ topicsSeq = 1
  /\ forumResp = ForumResponse("none", 0, NullId, 0)
  /\ okFetches = (1 :> 0)
  /\ postsSeq = 2
  /\ req = [r \in Reqs |-> IdleReq]
  /\ started = 0

\* ... nobody having liked anything
LikeInit ==
  /\ LikeBase
  /\ posts = TwoPosts
  /\ likes = {}
  /\ likesSeq = 0

\* the (user, post) keys of the Like rows
LikePairs(L) == {<<l.user_id, l.post_id>> : l \in L}

\* posts.likes of every post
LikeCounts(P) == [i \in DOMAIN P |-> P[i].likes]

\* COUNT(*) FROM likes WHERE post_id = p
LikeCount(L, post_id) == Cardinality({l \in L : l.post_id = post_id})

Snapshot == [pairs |-> LikePairs(likes), counts |-> LikeCounts(posts)]

SeqIdle ==
  /\ cur0 = Snapshot
  /\ hist = <<>>

(***************************************************************************)
(* The in-memory server (src/server-sqlite.js).                            *)
(***************************************************************************)
\* a JavaScript number: an integer, or NaN
JsNum(n) == [nan |-> FALSE, val |-> n]

JsNaN == [nan |-> TRUE, val |-> 0]

\* a === b on numbers: NaN equals nothing, itself included
StrictEq(a, b) == ~a.nan /\ ~b.nan /\ a.val = b.val

DigitValue ==
  [c \in {"0", "1", "2", "3", "4", "5", "6", "7", "8", "9"} |->
     CASE c = "0" -> 0 [] c = "1" -> 1 [] c = "2" -> 2 [] c = "3" -> 3 [] c = "4" -> 4
       [] c = "5" -> 5 [] c = "6" -> 6 [] c = "7" -> 7 [] c = "8" -> 8 [] c = "9" -> 9]

RECURSIVE SkipSpaces(_)
SkipSpaces(s) == IF s # <<>> /\ Head(s) = " " THEN SkipSpaces(Tail(s)) ELSE s

\* the value of the longest prefix of digits, read after the digits in acc
RECURSIVE ParseDigits(_, _)
ParseDigits(s, acc) ==
  IF s # <<>> /\ Head(s) \in DOMAIN DigitValue
  THEN ParseDigits(Tail(s), 10 * acc + DigitValue[Head(s)])
  ELSE acc

\* parseInt(x) of a body or query value given as its characters (NULL: absent):
\* leading blanks, a sign, then digits up to the first other character
ParseInt(raw) ==
  IF raw = NULL THEN JsNaN
  ELSE LET s == SkipSpaces(raw)
           neg == s # <<>> /\ Head(s) = "-"
           t == IF s # <<>> /\ Head(s) \in {"-", "+"} THEN Tail(s) ELSE s
       IN IF t = <<>> \/ Head(t) \notin DOMAIN DigitValue THEN JsNaN
          ELSE JsNum(IF neg THEN 0 - ParseDigits(t, 0) ELSE ParseDigits(t, 0))

\* category_id / ?category= values requests carry
RawParams == {NULL, <<"1">>, <<" ", "2", "x">>, <<"x", "1">>, <<"7">>}

\* categories.find(c => c.id === parseInt(category_id)): its index, 0 for none
MemFindCategory(C, raw) ==
  LET hits == {k \in 1..Len(C) : StrictEq(JsNum(C[k].id), ParseInt(raw))}
  IN IF hits = {} THEN 0 ELSE CHOOSE k \in hits : \A j \in hits : k <= j

\* the mutant of MemCountTopic: the category looked up by the id as the body
\* carries it (c.id === category_id), which no string equals
MemCountTopicRaw(C, raw) == C

\* if (category) category.topic_count++
MemCountTopic(C, raw) ==
  LET k == MemFindCategory(C, raw)
  IN IF k = 0 THEN C ELSE [C EXCEPT ![k].topic_count = @ + 1]

\* seq with x put before the first element created before x (after its equals)
RECURSIVE InsertByDate(_, _)
InsertByDate(seq, x) ==
  IF seq = <<>> THEN <<x>>
  ELSE IF Head(seq).created_at < x.created_at THEN <<x>> \o seq
  ELSE <<Head(seq)>> \o InsertByDate(Tail(seq), x)

\* topics.sort((a, b) => b.created_at - a.created_at): newest first, stable
RECURSIVE SortByDateDesc(_)
SortByDateDesc(seq) ==
  IF seq = <<>> THEN <<>>
  ELSE InsertByDate(SortByDateDesc(SubSeq(seq, 1, Len(seq) - 1)), seq[Len(seq)])

MemFrame == UNCHANGED <<now, authVars, forumVars, postVars, likeVars, seqVars>>

MemResponse(op, id, topic_count) == [op |-> op, id |-> id, topic_count |-> topic_count]

\* POST /api/topics
MemCreateTopic(raw) ==
  /\ Len(memTopics) < MaxMemTopics
  /\ LET newTopic == [id |-> topicIdCounter, category_id |-> ParseInt(raw),
                      created_at |-> now]
     IN /\ memTopics' = Append(memTopics, newTopic)
        /\ memResp' = MemResponse("createTopic", newTopic.id, 0)
  /\ topicIdCounter' = topicIdCounter + 1
  /\ memCategories' = MemCountTopic(memCategories, raw)
  /\ MemFrame

\* GET /api/topics: without ?category= the sort is of the store's own array
MemListTopics(raw) ==
  /\ memTopics' = IF raw = NULL THEN SortByDateDesc(memTopics) ELSE memTopics
  /\ memResp' = MemResponse("listTopics", 0, 0)
  /\ UNCHANGED <<memCategories, topicIdCounter>>
  /\ MemFrame

\* GET /api/stats
MemStats ==
  /\ memResp' = MemResponse("stats", 0, Len(memTopics))
  /\ UNCHANGED <<memTopics, memCategories, topicIdCounter>>
  /\ MemFrame

\* the module-level state of server-sqlite.js
MemIdle ==
  /\ memTopics = <<>>
  /\ memCategories = [k \in 1..4 |-> [id |-> k, topic_count |-> 0]]
  /\ topicIdCounter = 1
  /\ memResp = MemResponse("none", 0, 0)

Init ==
  /\ LikeInit
  /\ SeqIdle
  /\ MemIdle

Next ==
  \/ \E r \in Reqs, user_id \in UserIdParams, post_id \in PostIdParams :
       LikeSelect(r, user_id, post_id) /\ UNCHANGED seqVars
  \/ \E r \in Reqs : LikeInsert(r) /\ UNCHANGED seqVars
  \/ \E r \in Reqs : LikeIncrement(r) /\ UNCHANGED seqVars
  \/ \E r \in Reqs : LikeDelete(r) /\ UNCHANGED seqVars
  \/ \E r \in Reqs : LikeDecrement(r) /\ UNCHANGED seqVars

\* the relational server under concurrent like requests
Spec == Init /\ [][Next]_vars

(***************************************************************************)
(* Like requests issued one after the other: a request is received only    *)
(* when no other is running.  The client remembers the store as it was     *)
(* when each of the last two toggles began, and their answers.             *)
(***************************************************************************)
\* posts.likes may lag the rows by this much where the run begins
MaxDrift == 1

LastTwo(h) == IF Len(h) > 2 THEN Tail(h) ELSE h

\* the client's record, kept when request r is answered
SeqRecord(r) ==
  /\ cur0' = cur0
  /\ hist' = IF req'[r].pc = "done"
             THEN LastTwo(Append(hist, [user |-> req[r].user, post |-> req[r].post,
                                        resp |-> req'[r].resp, pairs |-> cur0.pairs,
                                        counts |-> cur0.counts]))
             ELSE hist

\* any store the likes of two users on two posts can be in: each pair liked or
\* not, and each counter behind its rows by what earlier races cost it
SeqInit ==
  /\ LikeBase
  /\ \E S \in SUBSET ({1, 2} \X {1, 2}), drift \in [{1, 2} -> 0..MaxDrift] :
       /\ likes = {[id |-> 2 * (k[1] - 1) + k[2], user_id |-> k[1], post_id |-> k[2]] : k \in S}
       /\ posts = [i \in {1, 2} |-> [TwoPosts[i] EXCEPT !.likes = LikeCount(likes, i) - drift[i]]]
  /\ likesSeq = 4
  /\ cur0 = Snapshot
  /\ hist = <<>>
  /\ MemIdle

\* one request at a time occupies one slot
SeqNext ==
  \/ \E user_id \in UserIdParams, post_id \in PostIdParams :
       /\ Quiescent
       /\ LikeSelect(1, user_id, post_id)
       /\ cur0' = Snapshot
       /\ hist' = hist
  \/ LikeInsert(1) /\ SeqRecord(1)
  \/ LikeIncrement(1) /\ SeqRecord(1)
  \/ LikeDelete(1) /\ SeqRecord(1)
  \/ LikeDecrement(1) /\ SeqRecord(1)

\* the relational server answering one like request at a time
SpecSeq == SeqInit /\ [][SeqNext]_vars

(***************************************************************************)
(* Claims about likes.                                                     *)
(***************************************************************************)
\* C1: in every reachable state there is at most one Like row per (user, post)
\* pair, whatever the interleaving of the like requests.
C1_OneLikePerPair ==
  \A a, b \in likes : (a.user_id = b.user_id /\ a.post_id = b.post_id) => a = b

\* C1 witness: two requests of one user on one post both found no row, and the
\* first of them has inserted its row.
C1_Witness ==
  \E r1, r2 \in Reqs :
    /\ req[r1].pc = "increment"
    /\ req[r2].pc = "insert"
    /\ req[r1].user = req[r2].user
    /\ req[r1].post = req[r2].post

\* C2 (as claimed): with no like request running, every post's likes counter
\* equals the number of Like rows of that post.
C2_CounterMatchesRows ==
  Quiescent => \A p \in DOMAIN posts : posts[p].likes = LikeCount(likes, p)

\* C3: a request whose insert meets an existing row of its (user, post) is
\* answered with an error and changes neither the rows nor any counter; a
\* request goes on to increment only after its own insert added the row, and a
\* counter rises only in the step that answers {liked: true}.
C3_SecondInsertRejected ==
  [][\A r \in Reqs :
       /\ (/\ req[r].pc = "insert"
           /\ req'[r].pc # "insert"
           /\ LikeRows(likes, req[r].user, req[r].post) # {})
          => (/\ req'[r].pc = "done"
              /\ req'[r].resp = "error500"
              /\ likes' = likes
              /\ posts' = posts)
       /\ (req[r].pc # "increment" /\ req'[r].pc = "increment")
          => (/\ LikeRows(likes, req[r].user, req[r].post) = {}
              /\ LikeRows(likes', req[r].user, req[r].post) # {})
       /\ (req[r].resp # "liked_true" /\ req'[r].resp = "liked_true")
          => (/\ req[r].pc = "increment"
              /\ LikeCounts(posts') = [LikeCounts(posts) EXCEPT ![req[r].post] = @ + 1])
       /\ (\E p \in DOMAIN posts : posts'[p].likes > posts[p].likes)
          => (\E q \in Reqs : req[q].pc = "increment" /\ req'[q].resp = "liked_true")
    ]_vars

\* C3 witness: of two requests of an existing user on an existing post, one was
\* answered {liked: true} and the other an error.
C3_Witness ==
  \E r1, r2 \in Reqs :
    /\ req[r1].pc = "done" /\ req[r1].resp = "liked_true"
    /\ req[r2].pc = "done" /\ req[r2].resp = "error500"
    /\ req[r1].user = req[r2].user
    /\ req[r1].post = req[r2].post
    /\ req[r2].user \in DOMAIN users
    /\ req[r2].post \in DOMAIN posts

\* C4: two toggles of an existing user on an existing post, run one after the
\* other with no request between them, answer opposite liked values and leave
\* the (user, post) pairs liked and every likes counter as they were.
C4_TogglePair ==
  (/\ Quiescent
   /\ Len(hist) = 2
   /\ hist[1].user = hist[2].user
   /\ hist[1].post = hist[2].post
   /\ hist[1].user \in DOMAIN users
   /\ hist[1].post \in DOMAIN posts)
  => (/\ {hist[1].resp, hist[2].resp} = {"liked_true", "liked_false"}
      /\ LikePairs(likes) = hist[1].pairs
      /\ LikeCounts(posts) = hist[1].counts)

\* C4 witness: such a pair has run, the first toggle being an unlike.
C4_Witness ==
  /\ Quiescent
  /\ Len(hist) = 2
  /\ hist[1].user = hist[2].user
  /\ hist[1].post = hist[2].post
  /\ hist[1].resp = "liked_false"
  /\ hist[2].resp = "liked_true"

(***************************************************************************)
(* The topic and post endpoints, one request at a time.                    *)
(***************************************************************************)
TextParams == {NULL, "text"}
TopicIdParams == 1..(MaxTopics + 1)

AdminOnly == InsertAdmin(EmptyTable, 0, BcryptHash("admin123", "s1"), 0)

\* the store and the in-memory server right after the first start
ServerInit ==
  /\ SeededInit
  /\ users = AdminOnly
  /\ usersSeq = 1
  /\ ForumInit
  /\ PostsInit
  /\ likes = {}
  /\ likesSeq = 0
  /\ req = [r \in Reqs |-> IdleReq]
  /\ started = 0
  /\ SeqIdle
  /\ MemIdle

ForumNext ==
  \/ \E title \in TextParams, content \in TextParams,
        category_id \in {1, 9}, user_id \in {NullId, 9} :
       CreateTopic(title, content, category_id, user_id)
  \/ \E id \in TopicIdParams : GetTopic(id)
  \/ \E content \in TextParams, topic_id \in {NullId} \cup TopicIdParams,
        user_id \in {NullId, 9}, parent_id \in {NullId, 1} :
       CreatePost(content, topic_id, user_id, parent_id)
  \/ Tick

SpecForum == ServerInit /\ [][ForumNext]_vars

\* C6 (as claimed): every Post row has a non-null topic_id that references an
\* existing Topic.
C6_PostTopicNotNull ==
  \A p \in DOMAIN posts :
    posts[p].topic_id # NullId /\ posts[p].topic_id \in DOMAIN topics

\* C9: every topic's view counter equals the number of get-topic requests for
\* it that were answered 200 (so N fetches add exactly N, and a fetch of one
\* topic or of a missing id adds nothing elsewhere); the answer to a fetch of an
\* existing topic is 200 and reports the counter after its own increment, and
\* the answer to a fetch of a missing id is 404.
C9_ViewsCountFetches ==
  /\ \A t \in DOMAIN topics : topics[t].views = okFetches[t]
  /\ forumResp.op = "getTopic" =>
       IF forumResp.id \in DOMAIN topics
       THEN forumResp.status = 200 /\ forumResp.views = topics[forumResp.id].views
       ELSE forumResp.status = 404

\* C9 witness: after several fetches of one topic, answered 200, another topic
\* has not been viewed.
C9_Witness ==
  /\ forumResp.op = "getTopic"
  /\ forumResp.status = 200
  /\ forumResp.views >= 2
  /\ \E t \in DOMAIN topics : t # forumResp.id /\ topics[t].views = 0

(***************************************************************************)
(* Register, login and re-runs of initDB.                                  *)
(***************************************************************************)
AuthSpecInit ==
  /\ AuthInit
  /\ ForumInit
  /\ PostsInit
  /\ likes = {}
  /\ likesSeq = 0
  /\ req = [r \in Reqs |-> IdleReq]
  /\ started = 0
  /\ SeqIdle
  /\ MemIdle

AuthNext ==
  \/ InitTables
  \/ InitCategories
  \/ InitAdmin
  \/ \E username \in Strings \cup {NULL}, email \in Strings \cup {NULL},
        password \in NewPasswords \cup {NULL} :
       Register(username, email, password)
  \/ \E identifier \in Strings \cup {NULL}, password \in Passwords \cup {NULL} :
       Login(identifier, password)
  \/ Tick

SpecAuth == AuthSpecInit /\ [][AuthNext]_vars

\* C5 (as claimed): whenever initDB has run to its end, each of the four default
\* categories is stored exactly once and there is exactly one 'admin' user.
C5_InitIdempotent ==
  initPc = "done" =>
    /\ \A k \in 1..Len(SeedCategories) :
         Cardinality({c \in DOMAIN categories : categories[c].name = SeedCategories[k]}) = 1
    /\ Cardinality({u \in DOMAIN users : users[u].username = "admin"}) = 1

C8_LoginClaim ==
  authResp.op = "login" =>
    LET b == authResp.before
        correct == {i \in LoginRows(b, authResp.username) :
                      BcryptCompare(authResp.password, b[i].password_hash)}
    IN /\ correct # {} =>
            /\ authResp.status = 200
            /\ authResp.id \in correct
            /\ users[authResp.id].last_seen >= b[authResp.id].last_seen
       /\ (authResp.password # NULL /\ correct = {}) =>
            /\ authResp.status = 401
            /\ users = b

(***************************************************************************)
(* The in-memory server on its own.                                        *)
(***************************************************************************)
MemNext ==
  \/ \E raw \in RawParams : MemCreateTopic(raw)
  \/ \E raw \in RawParams : MemListTopics(raw)
  \/ MemStats
  \/ Tick

SpecMem == ServerInit /\ [][MemNext]_vars

\* C10: in the in-memory server every category's topic_count is the number of
\* stored topics whose category_id equals (===) its id; the stored topic ids are
\* pairwise distinct and are 1, 2, ... in the order of creation (the k-th topic
\* created is answered with id k); and stats reports the number of stored topics.
C10_MemCounts ==
  /\ \A k \in 1..Len(memCategories) :
       memCategories[k].topic_count =
         Cardinality({i \in 1..Len(memTopics) :
                        StrictEq(memTopics[i].category_id, JsNum(memCategories[k].id))})
  /\ \A i, j \in 1..Len(memTopics) : memTopics[i].id = memTopics[j].id => i = j
  /\ {memTopics[i].id : i \in 1..Len(memTopics)} = 1..Len(memTopics)
  /\ topicIdCounter = Len(memTopics) + 1
  /\ memResp.op = "createTopic" => memResp.id = Len(memTopics)
  /\ memResp.op = "stats" => memResp.topic_count = Len(memTopics)

\* C10 witness: topics of a category, of an id no category has and of no
\* category at all are stored, and a listing has reordered the array.
C10_Witness ==
  /\ \E k \in 1..Len(memCategories) : memCategories[k].topic_count >= 1
  /\ \E i \in 1..Len(memTopics) : memTopics[i].category_id.nan
  /\ \E i \in 1..Len(memTopics) : StrictEq(memTopics[i].category_id, JsNum(7))
  /\ memTopics[1].id > memTopics[2].id

====
